---- MODULE Spec2Model ----
(***************************************************************************)
(* Model of src/scripts/compare_models.py: the comparison driver main(),   *)
(* run_script() and load_and_display_results().  One run of the driver is  *)
(* one behaviour: the command line is fixed in the initial state, and the  *)
(* actions follow the statements of main() and of the functions it calls.  *)
(* Spec and LiveSpec are the driver.  RoundTripSpec is the model wrapper   *)
(* of src/utils/model.py (SentimentModel, EnhancedSentimentModel): train,  *)
(* save and load of one instance.                                          *)
(***************************************************************************)
EXTENDS Integers, Sequences, FiniteSets, TLC

VARIABLES
    args,        \* argparse namespace: the parsed command line
    pc,          \* position of the driver in main() / run_script()
    scripts,     \* the list `scripts` of main()
    idx,         \* index of the for loop over scripts (0-based, done so far)
    call,        \* arguments of the run_script call in progress (or the last)
    child,       \* live subprocesses: set of [name, state]
    outcome,     \* what subprocess.run did in the current run_script call
    success,     \* return value of the last run_script call
    started,     \* history: run_script calls made, in order
    finished,    \* history: script names whose run_script call has returned
    log,         \* number of records logged, per kind
    report,      \* save_report_to_file: "none", "running", "returned", "raised"
    display,     \* load_and_display_results: "none", "running", or how it returned
    raised,      \* the functions an exception has propagated out of
    m,           \* model wrapper: the SentimentModel instance that is saved
    files,       \* model wrapper: what is stored at each file path
    loaded,      \* model wrapper: the instance the last load returned
    lastLoad     \* history: the class, path and file content of the last load

\* the variables of the comparison driver
dvars == <<args, pc, scripts, idx, call, child, outcome, success, started,
           finished, log, report, display, raised>>

\* the variables of the model wrapper (src/utils/model.py)
wvars == <<m, files, loaded, lastLoad>>

vars == <<dvars, wvars>>

----------------------------------------------------------------------------
(* Bounds of the model *)

\* --sample_size ranges over 20000 + d * 15000 for d in -MaxSampleDelta..MaxSampleDelta
MaxSampleDelta == 1
\* --timeout ranges over k * 1800 for k in 0..MaxTimeoutUnits
MaxTimeoutUnits == 3
\* a script exits with a return code in 0..MaxReturnCode
MaxReturnCode == 1

(* Constants of the program *)

DefaultTimeout == 1800
TransformerMinTimeout == 3600
TransformerSampleCap == 20000

Min(a, b) == IF a < b THEN a ELSE b
Max(a, b) == IF a > b THEN a ELSE b

SampleSizes == { TransformerSampleCap + d * 15000 : d \in -MaxSampleDelta..MaxSampleDelta }
Timeouts == { k * DefaultTimeout : k \in 0..MaxTimeoutUnits }
ReturnCodes == 0..MaxReturnCode

\* the namespaces parse_args() can return (--verbose is never read)
Namespaces ==
    [ include_roberta : BOOLEAN, include_all : BOOLEAN, skip_training : BOOLEAN,
      sample_size : SampleSizes, timeout : Timeouts ]

----------------------------------------------------------------------------
(* Formatting of the script arguments *)

DigitChars == <<"0", "1", "2", "3", "4", "5", "6", "7", "8", "9">>

RECURSIVE NatToStr(_)
NatToStr(n) ==
    IF n < 10 THEN <<DigitChars[n + 1]>>
    ELSE Append(NatToStr(n \div 10), DigitChars[(n % 10) + 1])

\* str(n) of a Python int, as the sequence of its characters
IntToStr(n) == IF n < 0 THEN <<"-">> \o NatToStr(-n) ELSE NatToStr(n)

\* f"--sample_size={n}"
sample_size_arg(n) == <<"--sample_size=">> \o IntToStr(n)

mode_train_arg == <<"--mode=train">>

----------------------------------------------------------------------------
(* The script list of main() *)

script_mapping ==
    [ mlp_basic    |-> "mlp_basic_main.py",
      mlp_enhanced |-> "mlp_enhanced_main.py",
      roberta      |-> "roberta_main.py",
      kernel       |-> "kernel_approximation_main.py",
      pca          |-> "randomized_pca_main.py",
      lstm         |-> "lstm_main.py",
      lstm_roberta |-> "lstm_roberta_main.py" ]

transformer_sample_size_uncapped(a) == a.sample_size

transformer_sample_size(a) ==
    IF a.sample_size > TransformerSampleCap
    THEN Min(a.sample_size, TransformerSampleCap)
    ELSE a.sample_size

base_scripts(a) ==
    << [name |-> script_mapping.mlp_basic,    args |-> <<sample_size_arg(a.sample_size)>>],
       [name |-> script_mapping.mlp_enhanced, args |-> <<sample_size_arg(a.sample_size)>>],
       [name |-> script_mapping.kernel,       args |-> <<sample_size_arg(a.sample_size)>>],
       [name |-> script_mapping.pca,          args |-> <<sample_size_arg(a.sample_size)>>] >>

roberta_script(a) ==
    [name |-> script_mapping.roberta,
     args |-> <<sample_size_arg(transformer_sample_size(a))>>]

lstm_scripts(a) ==
    << [name |-> script_mapping.lstm,
        args |-> <<sample_size_arg(transformer_sample_size(a)), mode_train_arg>>],
       [name |-> script_mapping.lstm_roberta,
        args |-> <<sample_size_arg(transformer_sample_size(a)), mode_train_arg>>] >>

build_scripts_roberta_flag_only(a) ==
    base_scripts(a)
      \o (IF a.include_roberta THEN <<roberta_script(a)>> ELSE <<>>)
      \o (IF a.include_all THEN lstm_scripts(a) ELSE <<>>)

\* lines 153-181: the list built when training is not skipped
build_scripts(a) ==
    base_scripts(a)
      \o (IF a.include_roberta \/ a.include_all
          THEN <<roberta_script(a)>>
                 \o (IF a.include_all THEN lstm_scripts(a) ELSE <<>>)
          ELSE <<>>)

script_timeout_all_lstm(a, name) ==
    IF name \in {script_mapping.roberta, script_mapping.lstm_roberta, script_mapping.lstm}
    THEN Max(a.timeout, TransformerMinTimeout)
    ELSE a.timeout

\* lines 185-188: the timeout of one script
script_timeout(a, name) ==
    IF name \in {script_mapping.roberta, script_mapping.lstm_roberta}
    THEN Max(a.timeout, TransformerMinTimeout)
    ELSE a.timeout

----------------------------------------------------------------------------
(* Logging *)

LogKinds == {"error", "warning", "skip_training", "complete"}

Logged(l, kind, n) == [l EXCEPT ![kind] = @ + n]

\* the ways load_and_display_results returns
DisplayReturned == {"no_file", "shown", "error"}

NoCall == [name |-> "", args |-> <<>>, timeout |-> 0]
NoOutcome == [kind |-> "none", returncode |-> {}]

----------------------------------------------------------------------------
(* The model wrapper: src/utils/model.py *)

\* input_dim ranges over 1..MaxInputDim
MaxInputDim == 2
\* num_classes ranges over 1..MaxNumClasses
MaxNumClasses == 3
\* the weights of a network are one of 0..MaxWeight
MaxWeight == 1

\* the default of the num_classes parameter of __init__
DefaultNumClasses == 2

Classes == {"SentimentModel", "EnhancedSentimentModel"}
InputDims == 1..MaxInputDim
NumClasses == 1..MaxNumClasses
Weights == 0..MaxWeight
FilePaths == {"model_a", "model_b"}

NoInstance == [cls |-> "none"]
NoFile == [arch |-> "none"]
NoLoad == [cls |-> "none"]

\* _create_model of class cls: the network built for an instance with the
\* given input_dim and num_classes, with initial weights w
create_model(cls, input_dim, num_classes, w) ==
    [ origin    |-> "_create_model",
      arch      |-> IF cls = "EnhancedSentimentModel" THEN "enhanced" ELSE "basic",
      input_dim |-> input_dim,
      units     |-> num_classes,
      weights   |-> w ]

\* __init__: cls(input_dim, num_classes)
new_instance(cls, input_dim, num_classes, w) ==
    [ cls         |-> cls,
      input_dim   |-> input_dim,
      num_classes |-> num_classes,
      model       |-> create_model(cls, input_dim, num_classes, w) ]

\* model.save(filepath): what the file holds of a network
saved_model(model) ==
    [ arch      |-> model.arch,
      input_dim |-> model.input_dim,
      units     |-> model.units,
      weights   |-> model.weights ]

\* tf.keras.models.load_model(filepath): a new network object with the
\* stored architecture and weights
load_model(file) ==
    [ origin    |-> "load_model",
      arch      |-> file.arch,
      input_dim |-> file.input_dim,
      units     |-> file.units,
      weights   |-> file.weights ]

\* loaded_model.input_shape, as (None, input_dim)
input_shape(model) == <<"None", model.input_dim>>

\* cls.load: the instance returned for the content of the file, where w is
\* the initial weights of the network __init__ creates
load(cls, file, w) ==
    LET loaded_model == load_model(file)
        instance == new_instance(cls, input_shape(loaded_model)[2], DefaultNumClasses, w)
    IN  [instance EXCEPT !.model = loaded_model]

----------------------------------------------------------------------------
Init ==
    /\ args \in Namespaces
    /\ pc = "main"
    /\ scripts = <<>>
    /\ idx = 0
    /\ call = NoCall
    /\ child = {}
    /\ outcome = NoOutcome
    /\ success = FALSE
    /\ started = <<>>
    /\ finished = <<>>
    /\ log = [k \in LogKinds |-> 0]
    /\ report = "none"
    /\ display = "none"
    /\ raised = {}
    /\ m = NoInstance
    /\ files = [p \in FilePaths |-> NoFile]
    /\ loaded = NoInstance
    /\ lastLoad = NoLoad

----------------------------------------------------------------------------
(* main(): lines 150-194 *)

BuildScripts_IgnoreSkip ==
    /\ pc = "main"
    /\ scripts' = build_scripts(args)
    /\ pc' = "loop"
    /\ UNCHANGED <<wvars, args, idx, call, child, outcome, success, started, finished,
                   log, report, display, raised>>

\* line 151 true: build the list of scripts
BuildScripts ==
    /\ pc = "main"
    /\ ~args.skip_training
    /\ scripts' = build_scripts(args)
    /\ pc' = "loop"
    /\ UNCHANGED <<wvars, args, idx, call, child, outcome, success, started, finished,
                   log, report, display, raised>>

\* line 151 false: lines 193-194
SkipTraining ==
    /\ pc = "main"
    /\ args.skip_training
    /\ log' = Logged(log, "skip_training", 1)
    /\ pc' = "report"
    /\ UNCHANGED <<wvars, args, scripts, idx, call, child, outcome, success, started,
                   finished, report, display, raised>>

\* lines 184-190: next iteration of the for loop, up to the call of run_script
LoopNext ==
    /\ pc = "loop"
    /\ idx < Len(scripts)
    /\ LET script_info == scripts[idx + 1]
           c == [name    |-> script_info.name,
                 args    |-> script_info.args,
                 timeout |-> script_timeout(args, script_info.name)]
       IN  /\ call' = c
           /\ started' = Append(started, c)
    /\ outcome' = NoOutcome
    /\ pc' = "run_script"
    /\ UNCHANGED <<wvars, args, scripts, idx, child, success, finished, log, report,
                   display, raised>>

LoopEnd_AfterFirst ==
    /\ pc = "loop"
    /\ idx >= Min(1, Len(scripts))
    /\ pc' = "report"
    /\ UNCHANGED <<wvars, args, scripts, idx, call, child, outcome, success, started,
                   finished, log, report, display, raised>>

\* line 184: the for loop is exhausted
LoopEnd ==
    /\ pc = "loop"
    /\ idx = Len(scripts)
    /\ pc' = "report"
    /\ UNCHANGED <<wvars, args, scripts, idx, call, child, outcome, success, started,
                   finished, log, report, display, raised>>

----------------------------------------------------------------------------
(* run_script(): lines 29-64 *)

\* a return of run_script: the value returned, what subprocess.run did and
\* the logger.error records written on the way
Return(value, kind, rcs, nerrors) ==
    /\ success' = value
    /\ outcome' = [kind |-> kind, returncode |-> rcs]
    /\ log' = Logged(log, "error", nerrors)
    /\ finished' = Append(finished, call.name)
    /\ pc' = "returned"

\* line 43: subprocess.run starts the child process
Launch ==
    /\ pc = "run_script"
    /\ child' = child \cup {[name |-> call.name, state |-> "running"]}
    /\ pc' = "communicate"
    /\ UNCHANGED <<wvars, args, scripts, idx, call, outcome, success, started, finished,
                   log, report, display, raised>>

\* line 43 raises before a child exists (OSError); lines 62-64
LaunchFail ==
    /\ pc = "run_script"
    /\ Return(FALSE, "launch_error", {}, 1)
    /\ UNCHANGED <<wvars, args, scripts, idx, call, child, started, report, display, raised>>

\* the script stops making progress: it will not exit by itself
ChildHang ==
    /\ pc = "communicate"
    /\ \E p \in child :
         /\ p.state = "running"
         /\ child' = (child \ {p}) \cup {[p EXCEPT !.state = "hung"]}
    /\ UNCHANGED <<wvars, args, pc, scripts, idx, call, outcome, success, started,
                   finished, log, report, display, raised>>

\* lines 43-58: the child exits within the timeout with return code rc
ChildExit ==
    /\ pc = "communicate"
    /\ call.timeout > 0
    /\ \E p \in child, rc \in ReturnCodes :
         /\ p.name = call.name
         /\ p.state = "running"
         /\ child' = child \ {p}
         /\ IF rc # 0
            THEN Return(FALSE, "exited", {rc}, 2)
            ELSE Return(TRUE, "exited", {rc}, 0)
    /\ UNCHANGED <<wvars, args, scripts, idx, call, started, report, display, raised>>

ChildTimeout_NoKill ==
    /\ pc = "communicate"
    /\ Return(FALSE, "timeout", {}, 1)
    /\ UNCHANGED <<wvars, args, scripts, idx, call, child, started, report, display, raised>>

ChildTimeout_ReturnsTrue ==
    /\ pc = "communicate"
    /\ \E p \in child :
         /\ p.name = call.name
         /\ child' = child \ {p}
    /\ Return(TRUE, "timeout", {}, 1)
    /\ UNCHANGED <<wvars, args, scripts, idx, call, started, report, display, raised>>

ChildTimeout_Never ==
    /\ FALSE
    /\ UNCHANGED vars

\* lines 47, 59-61: the timeout expires; subprocess.run kills the child and
\* raises TimeoutExpired
ChildTimeout ==
    /\ pc = "communicate"
    /\ \E p \in child :
         /\ p.name = call.name
         /\ child' = child \ {p}
    /\ Return(FALSE, "timeout", {}, 1)
    /\ UNCHANGED <<wvars, args, scripts, idx, call, started, report, display, raised>>

\* line 43 raises another Exception while it collects the output of a
\* running child (for instance the captured text does not decode);
\* subprocess.run kills the child; lines 62-64
CommunicateError ==
    /\ pc = "communicate"
    /\ \E p \in child :
         /\ p.name = call.name
         /\ p.state = "running"
         /\ child' = child \ {p}
    /\ Return(FALSE, "run_error", {}, 1)
    /\ UNCHANGED <<wvars, args, scripts, idx, call, started, report, display, raised>>

----------------------------------------------------------------------------
(* main(): lines 190-206 *)

AfterRun_Break ==
    /\ pc = "returned"
    /\ log' = IF success THEN log ELSE Logged(log, "warning", 1)
    /\ idx' = idx + 1
    /\ pc' = IF success THEN "loop" ELSE "report"
    /\ UNCHANGED <<wvars, args, scripts, call, child, outcome, success, started,
                   finished, report, display, raised>>

\* lines 190-192: back in the loop with the value run_script returned
AfterRun ==
    /\ pc = "returned"
    /\ log' = IF success THEN log ELSE Logged(log, "warning", 1)
    /\ idx' = idx + 1
    /\ pc' = "loop"
    /\ UNCHANGED <<wvars, args, scripts, call, child, outcome, success, started,
                   finished, report, display, raised>>

\* line 197: save_report_to_file() is called
SaveReportCall ==
    /\ pc = "report"
    /\ report' = "running"
    /\ pc' = "save_report"
    /\ UNCHANGED <<wvars, args, scripts, idx, call, child, outcome, success, started,
                   finished, log, display, raised>>

\* line 197: save_report_to_file() returns
SaveReportReturn ==
    /\ pc = "save_report"
    /\ report' = "returned"
    /\ pc' = "display"
    /\ UNCHANGED <<wvars, args, scripts, idx, call, child, outcome, success, started,
                   finished, log, display, raised>>

SaveReportRaise_Swallowed ==
    /\ pc = "save_report"
    /\ report' = "raised"
    /\ log' = Logged(log, "error", 1)
    /\ pc' = "display"
    /\ UNCHANGED <<wvars, args, scripts, idx, call, child, outcome, success, started,
                   finished, display, raised>>

\* line 197 raises; lines 204-206 log the error and re-raise it
SaveReportRaise ==
    /\ pc = "save_report"
    /\ report' = "raised"
    /\ log' = Logged(log, "error", 1)
    /\ raised' = raised \cup {"save_report_to_file", "main"}
    /\ pc' = "raised"
    /\ UNCHANGED <<wvars, args, scripts, idx, call, child, outcome, success, started,
                   finished, display>>

\* line 200: load_and_display_results() is called
DisplayCall ==
    /\ pc = "display"
    /\ display' = "running"
    /\ pc' = "load_and_display_results"
    /\ UNCHANGED <<wvars, args, scripts, idx, call, child, outcome, success, started,
                   finished, log, report, raised>>

\* lines 70-72: no results file
DisplayNoFile ==
    /\ pc = "load_and_display_results"
    /\ log' = Logged(log, "error", 1)
    /\ display' = "no_file"
    /\ pc' = "complete"
    /\ UNCHANGED <<wvars, args, scripts, idx, call, child, outcome, success, started,
                   finished, report, raised>>

\* lines 74-86: the results are read and logged
DisplayResults ==
    /\ pc = "load_and_display_results"
    /\ display' = "shown"
    /\ pc' = "complete"
    /\ UNCHANGED <<wvars, args, scripts, idx, call, child, outcome, success, started,
                   finished, log, report, raised>>

\* lines 74-89: reading or logging the results raises; lines 88-89
DisplayError ==
    /\ pc = "load_and_display_results"
    /\ log' = Logged(log, "error", 1)
    /\ display' = "error"
    /\ pc' = "complete"
    /\ UNCHANGED <<wvars, args, scripts, idx, call, child, outcome, success, started,
                   finished, report, raised>>

\* line 202
LogComplete ==
    /\ pc = "complete"
    /\ log' = Logged(log, "complete", 1)
    /\ pc' = "done"
    /\ UNCHANGED <<wvars, args, scripts, idx, call, child, outcome, success, started,
                   finished, report, display, raised>>

----------------------------------------------------------------------------
Next ==
    \/ BuildScripts
    \/ SkipTraining
    \/ LoopNext
    \/ LoopEnd
    \/ Launch
    \/ LaunchFail
    \/ ChildHang
    \/ ChildExit
    \/ ChildTimeout
    \/ CommunicateError
    \/ AfterRun
    \/ SaveReportCall
    \/ SaveReportReturn
    \/ SaveReportRaise
    \/ DisplayCall
    \/ DisplayNoFile
    \/ DisplayResults
    \/ DisplayError
    \/ LogComplete

Spec == Init /\ [][Next]_vars

\* the interpreter keeps executing the driver, and a timeout that is due fires
LiveSpec == Spec /\ WF_vars(Next)

TypeOK ==
    /\ args \in Namespaces
    /\ idx \in 0..Len(scripts)
    /\ success \in BOOLEAN
    /\ report \in {"none", "running", "returned", "raised"}
    /\ display \in {"none", "running"} \cup DisplayReturned
    /\ raised \subseteq {"run_script", "save_report_to_file", "load_and_display_results", "main"}

----------------------------------------------------------------------------
(* Properties of the driver *)

Names(calls) == [i \in 1..Len(calls) |-> calls[i].name]

\* main() has started its run_script loop or is beyond it
Selected == pc # "main"

\* main() has ended: it returned or an exception left it
Ended == pc \in {"done", "raised"}

\* C1: without --skip_training the scripts are invoked strictly sequentially
\* in list order: at most one script subprocess is alive at any moment, it is
\* the subprocess of the call started last, and script i+1 is started only
\* after the calls of scripts 1..i have finished (exit, timeout or failure
\* to start).
C1_Sequential ==
    ~args.skip_training =>
        /\ Cardinality(child) <= 1
        /\ Len(started) \in {Len(finished), Len(finished) + 1}
        /\ Len(started) <= Len(scripts)
        /\ \A i \in 1..Len(started) : started[i].name = scripts[i].name
        /\ \A i \in 1..Len(finished) : finished[i] = started[i].name
        /\ \A p \in child :
             /\ Len(started) = Len(finished) + 1
             /\ p.name = started[Len(started)].name

C1_Witness ==
    /\ ~args.skip_training
    /\ Len(finished) = 5
    /\ Len(started) = 6
    /\ child # {}
    /\ log["warning"] >= 2

\* C2: report generation starts only after every selected script has
\* finished and no script is started once it has begun; result display
\* starts only after report generation has returned.
C2_ReportAfterScripts ==
    /\ report # "none" =>
         /\ Len(started) = Len(scripts)
         /\ Len(finished) = Len(scripts)
         /\ child = {}
         /\ pc \notin {"main", "loop", "run_script", "communicate", "returned"}
    /\ display # "none" => report = "returned"
    /\ report = "running" => display = "none"

C2_Witness ==
    /\ display \in DisplayReturned
    /\ report = "returned"
    /\ Len(finished) = 7

\* C3: run_script returns True exactly when the subprocess was started,
\* finished within the timeout and exited with return code 0; it returns
\* False for a non-zero return code, a timeout and any other exception of
\* launching or running the subprocess; no exception leaves run_script.
C3_RunScriptResult ==
    /\ "run_script" \notin raised
    /\ pc = "returned" =>
         /\ outcome.kind \in {"exited", "timeout", "launch_error", "run_error"}
         /\ success <=> (outcome.kind = "exited" /\ outcome.returncode = {0})
         /\ outcome.kind = "exited" /\ outcome.returncode # {0} => ~success
         /\ outcome.kind \in {"timeout", "launch_error", "run_error"} => ~success

C3_Witness ==
    /\ pc = "returned"
    /\ outcome.kind = "timeout"
    /\ ~success
    /\ raised = {}

\* C4: without --skip_training every script of the list is invoked exactly
\* once whatever the outcomes of the scripts before it: the k-th call is the
\* k-th script (no retry), the driver goes on after a failed call, and
\* report generation (and, when it returns, result display) is reached with
\* every script invoked exactly once.
C4_EachScriptOnce ==
    ~args.skip_training =>
        /\ Len(started) <= Len(scripts)
        /\ \A i \in 1..Len(started) : started[i].name = scripts[i].name
        /\ \A i, j \in 1..Len(started) : started[i].name = started[j].name => i = j
        /\ pc = "returned" => ENABLED AfterRun /\ idx < Len(scripts)
        /\ pc = "loop" => idx = Len(finished) /\ Len(started) = idx
        /\ report # "none" => Len(started) = Len(scripts)
        /\ Ended => report # "none"
        /\ pc = "done" => report = "returned" /\ display \in DisplayReturned

C4_Witness ==
    /\ ~args.skip_training
    /\ pc = "done"
    /\ Len(started) = 7
    /\ log["warning"] = 7

\* C5: with --skip_training no script subprocess is ever started, whatever
\* the other flags are; main() goes straight to report generation, and
\* result display follows it.
C5_SkipTraining ==
    args.skip_training =>
        /\ started = <<>>
        /\ child = {}
        /\ pc \notin {"loop", "run_script", "communicate", "returned"}
        /\ pc # "main" => log["skip_training"] = 1
        /\ Ended => report # "none"
        /\ report = "returned" => pc \in {"display", "load_and_display_results", "complete", "done"}
        /\ pc = "done" => report = "returned" /\ display \in DisplayReturned

C5_Witness ==
    /\ args.skip_training
    /\ args.include_all
    /\ args.include_roberta
    /\ pc = "done"
    /\ display \in DisplayReturned

\* the script names the flags select, as the claim C6 lists them
ExpectedNames(include_roberta, include_all) ==
    <<"mlp_basic_main.py", "mlp_enhanced_main.py",
      "kernel_approximation_main.py", "randomized_pca_main.py">>
      \o (IF include_roberta \/ include_all THEN <<"roberta_main.py">> ELSE <<>>)
      \o (IF include_all THEN <<"lstm_main.py", "lstm_roberta_main.py">> ELSE <<>>)

\* C6: when training is not skipped the scripts run are the four basic
\* scripts in order, then roberta_main.py iff --include_roberta or
\* --include_all, then lstm_main.py and lstm_roberta_main.py iff
\* --include_all; with --include_all every script of script_mapping is run
\* exactly once and --include_roberta changes nothing.
C6_ScriptList ==
    ~args.skip_training /\ Selected =>
        /\ Names(scripts) = ExpectedNames(args.include_roberta, args.include_all)
        /\ report # "none" =>
             Names(started) = ExpectedNames(args.include_roberta, args.include_all)
        /\ args.include_all =>
             /\ Names(scripts) = ExpectedNames(~args.include_roberta, TRUE)
             /\ \A k \in DOMAIN script_mapping :
                  Cardinality({i \in 1..Len(scripts) : scripts[i].name = script_mapping[k]}) = 1
             /\ Len(scripts) = Cardinality(DOMAIN script_mapping)

C6_Witness ==
    /\ ~args.skip_training
    /\ args.include_all
    /\ ~args.include_roberta
    /\ pc = "done"
    /\ Len(started) = 7

\* C7: run_script gets max(--timeout, 3600) for roberta_main.py and
\* lstm_roberta_main.py and exactly --timeout for every other script,
\* lstm_main.py included.
C7_Timeouts ==
    \A i \in 1..Len(started) :
        IF started[i].name \in {"roberta_main.py", "lstm_roberta_main.py"}
        THEN /\ started[i].timeout = Max(args.timeout, 3600)
             /\ started[i].timeout >= 3600
             /\ started[i].timeout >= args.timeout
        ELSE started[i].timeout = args.timeout

C7_Witness ==
    /\ Len(started) = 7
    /\ args.timeout < 3600
    /\ started[5].timeout = 3600
    /\ started[6].timeout = args.timeout
    /\ started[7].timeout = 3600

\* C8: roberta_main.py, lstm_main.py and lstm_roberta_main.py are passed
\* --sample_size=min(--sample_size, 20000), all three the same value, and
\* the four other scripts are passed --sample_size unchanged.
C8_SampleSizes ==
    /\ \A i \in 1..Len(started) :
         started[i].args[1] =
           IF started[i].name \in {"roberta_main.py", "lstm_main.py", "lstm_roberta_main.py"}
           THEN sample_size_arg(Min(args.sample_size, 20000))
           ELSE sample_size_arg(args.sample_size)
    /\ \A i, j \in 5..Len(started) : started[i].args[1] = started[j].args[1]

C8_Witness ==
    /\ Len(started) = 7
    /\ args.sample_size > 20000
    /\ started[1].args[1] = sample_size_arg(args.sample_size)
    /\ started[7].args[1] = <<"--sample_size=", "2", "0", "0", "0", "0">>

\* C9: when every script subprocess exits by itself or is killed at its
\* timeout, main() terminates: it reaches report generation and then either
\* logs completion and returns or re-raises the error.
C9_Terminates ==
    <>( \/ pc = "done" /\ report = "returned" /\ log["complete"] = 1
        \/ pc = "raised" /\ report = "raised" /\ "main" \in raised )

C9_Witness ==
    /\ pc = "communicate"
    /\ \E p \in child : p.state = "hung"
    /\ Len(started) = 7

\* C10: if save_report_to_file raises, load_and_display_results is not
\* called, completion is not logged and the exception leaves main(); a
\* missing results file or an error inside load_and_display_results is
\* logged and not raised, and main() then logs completion and returns.
C10_ReportAndDisplayErrors ==
    /\ report = "raised" =>
         /\ display = "none"
         /\ log["complete"] = 0
         /\ pc = "raised"
         /\ {"save_report_to_file", "main"} \subseteq raised
    /\ "load_and_display_results" \notin raised
    /\ display \in {"no_file", "error"} =>
         /\ raised = {}
         /\ log["error"] >= 1
         /\ pc \in {"complete", "done"}
    /\ pc = "complete" => ENABLED LogComplete
    /\ pc = "done" => log["complete"] = 1 /\ raised = {}

C10_Witness ==
    /\ pc = "done"
    /\ display = "error"
    /\ log["complete"] = 1

----------------------------------------------------------------------------
(* The model wrapper: train, save and load of one instance *)

\* the driver is not running
DriverIdle ==
    /\ args = CHOOSE a \in Namespaces : TRUE
    /\ pc = "idle"
    /\ scripts = <<>>
    /\ idx = 0
    /\ call = NoCall
    /\ child = {}
    /\ outcome = NoOutcome
    /\ success = FALSE
    /\ started = <<>>
    /\ finished = <<>>
    /\ log = [k \in LogKinds |-> 0]
    /\ report = "none"
    /\ display = "none"
    /\ raised = {}

\* m = cls(input_dim, num_classes) has been constructed; nothing is saved
RoundTripInit ==
    /\ DriverIdle
    /\ \E cls \in Classes, input_dim \in InputDims, num_classes \in NumClasses, w \in Weights :
         m = new_instance(cls, input_dim, num_classes, w)
    /\ files = [p \in FilePaths |-> NoFile]
    /\ loaded = NoInstance
    /\ lastLoad = NoLoad

\* m.train(...): model.fit changes the weights of m.model
Train ==
    /\ \E w \in Weights \ {m.model.weights} :
         m' = [m EXCEPT !.model.weights = w]
    /\ UNCHANGED <<dvars, files, loaded, lastLoad>>

\* m.save(filepath)
Save ==
    /\ \E filepath \in FilePaths :
         files' = [files EXCEPT ![filepath] = saved_model(m.model)]
    /\ UNCHANGED <<dvars, m, loaded, lastLoad>>

\* cls.load(filepath) of a file that exists
Load ==
    /\ \E cls \in Classes, filepath \in FilePaths, w \in Weights :
         /\ files[filepath] # NoFile
         /\ loaded' = load(cls, files[filepath], w)
         /\ lastLoad' = [cls |-> cls, filepath |-> filepath, file |-> files[filepath]]
    /\ UNCHANGED <<dvars, m, files>>

RoundTripNext ==
    \/ Train
    \/ Save
    \/ Load

RoundTripSpec == RoundTripInit /\ [][RoundTripNext]_vars

\* C11: cls.load of the file written by m.save yields an instance of cls
\* whose model is the loaded (saved) model and not the one __init__ created,
\* and whose input_dim and num_classes equal those of m.
C11_RoundTrip ==
    lastLoad # NoLoad =>
        /\ loaded.cls = lastLoad.cls
        /\ loaded.model.origin = "load_model"
        /\ saved_model(loaded.model) = lastLoad.file
        /\ loaded.input_dim = m.input_dim
        /\ loaded.num_classes = m.num_classes

\* what load does preserve: the class, the saved network and input_dim;
\* num_classes of the loaded instance is the default of __init__, whatever
\* the number of output units of its network
C11_LoadedInstance ==
    lastLoad # NoLoad =>
        /\ loaded.cls = lastLoad.cls
        /\ loaded.model.origin = "load_model"
        /\ saved_model(loaded.model) = lastLoad.file
        /\ loaded.input_dim = m.input_dim
        /\ loaded.model.units = m.num_classes
        /\ loaded.num_classes = DefaultNumClasses

C11_Witness ==
    /\ lastLoad # NoLoad
    /\ m.num_classes = 3
    /\ loaded.num_classes = 2
    /\ loaded.model.units = 3

====
